---------------------------- MODULE Spec2Model ----------------------------
(***************************************************************************)
(* USB CDC ACM function driver (drivers/usb/gadget/function/f_acm.c).      *)
(*                                                                         *)
(* Part 1: the SerialState notification channel.  One usb_request          *)
(* (acm->notify_req) is shared by the gserial callbacks (connect,          *)
(* disconnect, send_break, ...) and by its own completion handler.         *)
(* Every execution context (two caller threads and the UDC's completion    *)
(* context) has a call stack of frames; the top frame is the running one.  *)
(* Code that runs under acm->lock is one step; usb_ep_queue() runs with    *)
(* the lock released and is a step of its own.                             *)
(*                                                                         *)
(* Part 2: the class control requests on ep0 (acm_setup and the            *)
(* SET_LINE_CODING data stage completion).                                 *)
(***************************************************************************)
EXTENDS Integers, Sequences, FiniteSets, TLC

\* ------------------------------------------------------------------ bounds

\* deepest call stack of one context: every synchronous completion inside
\* usb_ep_queue() nests one frame deeper
MaxDepth == 2

\* ---------------------------------------------------------- program constants

ACM_CTRL_RI  == 8
ACM_CTRL_BRK == 4
ACM_CTRL_DSR == 2
ACM_CTRL_DCD == 1

\* errno values as the kernel defines them (returned negated)
ESHUTDOWN == 108
ENOMEM == 12
EOPNOTSUPP == 95
ECONNRESET == 104

USB_CDC_NOTIFY_SERIAL_STATE == 32
\* USB_DIR_IN | USB_TYPE_CLASS | USB_RECIP_INTERFACE
NOTIFY_REQUEST_TYPE == 161

U16 == 65536

\* ------------------------------------------------------------------ state

VARIABLES
    CONFIG_LGE,     \* build has CONFIG_LGE_USB_G_ANDROID
    ctrl_id,        \* acm->ctrl_id
    notify_req,     \* acm->notify_req: "REQ" or "NULL"
    pending,        \* acm->pending
    serial_state,   \* acm->serial_state (u16)
    lock,           \* acm->lock: "free" or the context holding it
    req,            \* the notification usb_request: length and buffer
    outstanding,    \* transfers of the request queued on the notify endpoint
    stack,          \* stack[c]: call frames of context c, top last
    ret,            \* the value acm_notify_serial_state returned last
    budget,         \* events the transport may still begin (-1: any number)
    hist,           \* history of the channel (observation only)
    port_line_coding,    \* acm->port_line_coding: the 7 bytes of the struct
    port_handshake_bits, \* acm->port_handshake_bits (u16)
    notify_modem,   \* acm->port.notify_modem is set
    modem_calls,    \* values the latest acm_setup passed to notify_modem
    ep0req,         \* cdev->req: complete, length, zero, buf
    ep0,            \* the control endpoint: driver_data, what is queued, halt
    setup_ret,      \* the value acm_setup returned last
    rx,             \* bytes of the latest complete SET_LINE_CODING data stage
    transport,      \* acm->transport: "TTY", "SMD" or "UNDEF"
    notify_ep,      \* acm->notify: enabled (usb_ep_enable calls in effect), desc,
                    \* driver_data; reset: the latest acm_set_alt disabled it while
                    \* it was enabled (observation only); udc_clears: the UDC
                    \* clears ep->desc when it disables an endpoint
    port_ep,        \* acm->port.in and .out: desc of each, driver_data of .in;
                    \* bound: the latest binding of their descriptors "failed",
                    \* succeeded after a failure ("again"), or neither ("no")
                    \* (observation only)
    connected,      \* the transport is connected to the port
    alt_ret,        \* the value acm_set_alt returned last
    nr_acm_ports,        \* ports set up by acm_init_port (unsigned int)
    acm_next_free_port,  \* index the next acm_alloc_func takes (unsigned int)
    life,           \* st: the f_acm is "none", "alloc" (allocated) or "bound";
                    \* strings: acm_control_interface_desc.iInterface is set;
                    \* others: f_acm structures allocated besides this one
    bind_ret,       \* the value acm_bind returned last
    acm_eps,        \* acm->port.in, .out and acm->notify are set; claim on .out
    req_mem,        \* memory of the notification request: "none", "live", "freed",
                    \* "double" (freed twice)
    port_num        \* opts->port_num of this function's instance (this) and
                    \* of the other functions allocated (others)

nvars == <<CONFIG_LGE, ctrl_id, notify_req, pending, serial_state, lock, req,
           outstanding, stack, ret, budget, hist>>

svars == <<port_line_coding, port_handshake_bits, notify_modem, modem_calls,
           ep0req, ep0, setup_ret, rx>>

avars == <<transport, notify_ep, port_ep, connected, alt_ret>>

lvars == <<nr_acm_ports, acm_next_free_port, life, bind_ret, acm_eps, req_mem, port_num>>

vars == <<nvars, svars, avars, lvars>>

Threads == {"t1", "t2"}
Ctx == Threads \cup {"irq"}

\* ------------------------------------------------------------- u16 bit ops

RECURSIVE BitAnd(_, _)
BitAnd(a, b) ==
    IF a = 0 \/ b = 0 THEN 0
    ELSE (a % 2) * (b % 2) + 2 * BitAnd(a \div 2, b \div 2)

RECURSIVE BitOr(_, _)
BitOr(a, b) ==
    IF a = 0 THEN b
    ELSE IF b = 0 THEN a
    ELSE (IF a % 2 = 1 \/ b % 2 = 1 THEN 1 ELSE 0) + 2 * BitOr(a \div 2, b \div 2)

\* ~m as a u16
BitNot16(m) == (U16 - 1) - m

\* conversion of an int to u16 (C assignment to a u16 field)
ToU16(x) == x % U16

\* a u16 as it lies in memory of the little-endian CPU, and back
Le16Bytes(x) == <<x % 256, (x \div 256) % 256>>
Le16Value(b) == b[1] + 256 * b[2]

\* ------------------------------------------------------------------ frames

\* pc: "write"    the event computed the new serial_state, the store is next
\*     "notify"   about to enter acm_notify_serial_state (spin_lock, line 681)
\*     "queue"    acm_cdc_notify checked the request out and dropped the
\*                lock (line 662); usb_ep_queue (line 663) is next
\*     "relock"   usb_ep_queue returned st; spin_lock (line 664) is next
\* by: who called acm_notify_serial_state: an "event" or acm_cdc_notify_complete
Frame(pc, val, st, by) == [pc |-> pc, val |-> val, st |-> st, by |-> by]

Top(c) == stack[c][Len(stack[c])]
Running(c, pc) == stack[c] # <<>> /\ Top(c).pc = pc
Pop(s) == SubSeq(s, 1, Len(s) - 1)
SetTop(s, f) == Append(Pop(s), f)

\* ------------------------------------------------------------------ history

\* the coalesced calls of one batch are counted up to here
MaxCoalesce == 3

\* on:    batches of coalesced calls are observed (phase, n, last, stale, fu)
\* phase "coalescing": n calls were coalesced into the pending flag; last is
\*        serial_state at the latest of them and stale says that the one
\*        before it saw another value
\* phase "completed":  the transfer they waited for completed with a status
\*        other than -ESHUTDOWN while no other event was under way; fu counts
\*        the usb_ep_queue calls made since (up to 2)
\* shut:  the latest completion had status -ESHUTDOWN and found pending set
\* link:  the latest of acm_connect ("connect") and acm_disconnect
\*        ("disconnect") that stored serial_state, where events are observed
HistNone(on) ==
    [on |-> on, phase |-> "none", n |-> 0, last |-> 0, stale |-> FALSE, fu |-> 0,
     shut |-> FALSE, link |-> "none"]

\* no context other than c is between an event's start and its checkout
Quiet(c) ==
    \A d \in Ctx \ {c} : \A i \in 1..Len(stack[d]) : stack[d][i].pc = "relock"

\* a state change that is not part of the batch ends the observation
HistBreak(h) == [HistNone(h.on) EXCEPT !.shut = h.shut, !.link = h.link]

\* the event of frame f, where it is observed, stored serial_state
HistLink(h, f) ==
    IF "ev" \in DOMAIN f /\ f.ev.op \in {"connect", "disconnect"}
    THEN [h EXCEPT !.link = f.ev.op]
    ELSE h

\* a call was coalesced while serial_state was s
HistCoalesce(h, s) ==
    IF ~h.on THEN h
    ELSE IF h.phase = "coalescing"
    THEN [h EXCEPT !.n = IF @ < MaxCoalesce THEN @ + 1 ELSE @,
                   !.stale = (h.last # s), !.last = s]
    ELSE [HistBreak(h) EXCEPT !.phase = "coalescing", !.n = 1, !.last = s]

\* usb_ep_queue was called
HistQueue(h) == IF h.phase = "completed" /\ h.fu < 2 THEN [h EXCEPT !.fu = @ + 1] ELSE h

\* the completion handler ran in c with req->status = rs and saw pending = p
HistComplete(h, c, rs, p) ==
    LET g == [h EXCEPT !.shut = (rs = -ESHUTDOWN /\ p)]
    IN  IF h.phase # "coalescing" THEN g
        ELSE IF rs # -ESHUTDOWN /\ Quiet(c) THEN [g EXCEPT !.phase = "completed"]
        ELSE HistBreak(g)

\* ------------------------------------------------------------- state changes

\* acm_connect, line 719
acm_connect(s) == BitOr(s, BitOr(ACM_CTRL_DSR, ACM_CTRL_DCD))

\* (variant of acm_disconnect: the bits are left as they are)
acm_disconnect_kept(s) == s

\* acm_disconnect, line 780
acm_disconnect(s) == BitAnd(s, BitNot16(BitOr(ACM_CTRL_DSR, ACM_CTRL_DCD)))

\* acm_send_break, lines 789-794
acm_send_break(s, duration) ==
    LET state == BitAnd(s, BitNot16(ACM_CTRL_BRK))
    IN  IF duration # 0 THEN BitOr(state, ACM_CTRL_BRK) ELSE state

\* acm_send_carrier_detect, lines 750-755
acm_send_carrier_detect(s, yes) ==
    LET state == BitAnd(s, BitNot16(ACM_CTRL_DCD))
    IN  IF yes # 0 THEN BitOr(state, ACM_CTRL_DCD) ELSE state

\* acm_send_ring_indicator, lines 765-770
acm_send_ring_indicator(s, yes) ==
    LET state == BitAnd(s, BitNot16(ACM_CTRL_RI))
    IN  IF yes # 0 THEN BitOr(state, ACM_CTRL_RI) ELSE state

\* acm_send_modem_ctrl_bits, line 802: an int stored into a u16
acm_send_modem_ctrl_bits(ctrl_bits) == ToU16(ctrl_bits)

\* the calls the transport can make; send_carrier_detect and
\* send_ring_indicator exist in the LGE build only (lines 723-774, 1000-1005)
CtrlBitsInputs == {0, U16 + ACM_CTRL_BRK + ACM_CTRL_DSR}
Events(lge) ==
    {[op |-> "connect", arg |-> 0], [op |-> "disconnect", arg |-> 0]}
    \cup {[op |-> "send_break", arg |-> d] : d \in {0, 1}}
    \cup {[op |-> "send_modem_ctrl_bits", arg |-> b] : b \in CtrlBitsInputs}
    \cup (IF lge
          THEN {[op |-> o, arg |-> y] : o \in {"send_carrier_detect", "send_ring_indicator"},
                                         y \in {0, 1}}
          ELSE {})

NewState(e, s) ==
    CASE e.op = "connect" -> acm_connect(s)
      [] e.op = "disconnect" -> acm_disconnect(s)
      [] e.op = "send_break" -> acm_send_break(s, e.arg)
      [] e.op = "send_carrier_detect" -> acm_send_carrier_detect(s, e.arg)
      [] e.op = "send_ring_indicator" -> acm_send_ring_indicator(s, e.arg)
      [] e.op = "send_modem_ctrl_bits" -> acm_send_modem_ctrl_bits(e.arg)

\* ------------------------------------------------------ notification channel

GS_NOTIFY_MAXPACKET_LGE == 16
SIZEOF_NOTIFICATION == 8

RECURSIVE Zeros(_)
Zeros(n) == IF n <= 0 THEN <<>> ELSE <<0>> \o Zeros(n - 1)

\* (variant of NotifyRequest: wIndex is left zero)
NotifyRequest_noIndex(lge, type, value, data, length) ==
    [ length            |-> IF lge THEN 16 ELSE 8 + length,
      bmRequestType     |-> 161,
      bNotificationType |-> type,
      wValue            |-> Le16Bytes(value),
      wIndex            |-> <<0, 0>>,
      wLength           |-> Le16Bytes(length),
      data              |-> IF lge THEN SubSeq(data, 1, length) \o [i \in 1..(16 - length) |-> 0]
                            ELSE SubSeq(data, 1, length) ]

\* acm_cdc_notify, lines 631-659: the request as it is filled in for
\* (type, value, data, length); data are the bytes at &acm->serial_state
NotifyRequest(lge, type, value, data, length) ==
    [ length            |-> IF lge THEN GS_NOTIFY_MAXPACKET_LGE
                                   ELSE SIZEOF_NOTIFICATION + length,
      bmRequestType     |-> NOTIFY_REQUEST_TYPE,
      bNotificationType |-> type,
      wValue            |-> Le16Bytes(value),
      wIndex            |-> Le16Bytes(ctrl_id),
      wLength           |-> Le16Bytes(length),
      data              |-> IF lge
                            THEN SubSeq(data, 1, length)
                                 \o Zeros(GS_NOTIFY_MAXPACKET_LGE - length)
                            ELSE SubSeq(data, 1, length) ]

\* the serial_state a notification request carries
Payload(r) == Le16Value(SubSeq(r.data, 1, 2))

\* (variant of SlotAfterCheckout: the slot is not cleared at checkout)
SlotAfterCheckout_kept == "REQ"

\* acm_cdc_notify, line 637: the slot once the request is checked out
SlotAfterCheckout == "NULL"

\* (variant of PendingAfterCheckout: the flag survives the checkout)
PendingAfterCheckout_kept(p) == p

\* acm_cdc_notify, line 638: the pending flag once the request is checked out
PendingAfterCheckout(p) == FALSE

\* (variant of SlotAfterQueue: a failed submission does not return the request)
SlotAfterQueue_lost(status, slot) == slot

\* acm_cdc_notify, lines 666-671: the slot after usb_ep_queue returned status
SlotAfterQueue(status, slot) == IF status < 0 THEN "REQ" ELSE slot

\* (variant of CompleteDoit: the pending flag is not looked at)
CompleteDoit_never(status, pend) == FALSE

\* (variant of CompleteDoit: the status of the completed transfer is ignored)
CompleteDoit_anyStatus(status, pend) == pend

\* acm_cdc_notify_complete, lines 698-705: whether to send a follow-up
CompleteDoit(status, pend) == IF status # -ESHUTDOWN THEN pend ELSE FALSE

\* acm_notify_serial_state, line 682: is the request in the slot
SlotHeld(slot) == slot # "NULL"

\* what usb_ep_queue returns when it fails, and the statuses a notification
\* transfer can complete with (-ESHUTDOWN: the endpoint was disabled)
QueueErrors == {-ENOMEM}
CompleteStatuses == {0, -ECONNRESET, -ESHUTDOWN}

\* an event callback of the transport begins: it reads serial_state and
\* computes the new value (lines 719, 750-753, 765-768, 780, 789-792, 802)
\* (seen: the frame keeps the event, for observation)
EventFrame(e, s, seen) ==
    IF seen
    THEN [pc |-> "write", val |-> NewState(e, s), st |-> 0, by |-> "event", ev |-> e]
    ELSE Frame("write", NewState(e, s), 0, "event")

StartEventWith(t, events, seen) ==
    /\ stack[t] = <<>>
    /\ budget # 0
    /\ budget' = IF budget > 0 THEN budget - 1 ELSE budget
    /\ \E e \in events :
         stack' = [stack EXCEPT ![t] = <<EventFrame(e, serial_state, seen)>>]
    /\ hist' = IF hist.phase = "completed" THEN HistBreak(hist) ELSE hist
    /\ UNCHANGED <<CONFIG_LGE, ctrl_id, notify_req, pending, serial_state, lock, req,
                   outstanding, ret>>
    /\ UNCHANGED <<svars, avars, lvars>>

StartEventOf(t, events) == StartEventWith(t, events, FALSE)

StartEvent(t) == StartEventOf(t, Events(CONFIG_LGE))

\* the event stores the new serial_state (lines 719, 755, 770, 780, 794, 802)
\* and calls acm_notify_serial_state
WriteState(t) ==
    /\ Running(t, "write")
    /\ serial_state' = Top(t).val
    /\ stack' = [stack EXCEPT ![t] = SetTop(@, Frame("notify", 0, 0, "event"))]
    /\ hist' = HistLink(hist, Top(t))
    /\ UNCHANGED <<CONFIG_LGE, ctrl_id, budget, notify_req, pending, lock, req, outstanding, ret>>
    /\ UNCHANGED <<svars, avars, lvars>>

\* (variant of LockAtQueue: the submitter keeps the lock)
LockAtQueue_held(c) == c

\* acm_cdc_notify, line 662: spin_unlock before usb_ep_queue
LockAtQueue(c) == "free"

\* acm_notify_serial_state, lines 681-692, with acm_cdc_notify up to the
\* spin_unlock of line 662
NotifyEnter(c) ==
    /\ Running(c, "notify")
    /\ lock = "free"
    /\ IF SlotHeld(notify_req)
       THEN /\ notify_req' = SlotAfterCheckout
            /\ pending' = PendingAfterCheckout(pending)
            /\ req' = NotifyRequest(CONFIG_LGE, USB_CDC_NOTIFY_SERIAL_STATE, 0,
                                    Le16Bytes(serial_state), 2)
            /\ lock' = LockAtQueue(c)
            /\ stack' = [stack EXCEPT ![c] = SetTop(@, [Top(c) EXCEPT !.pc = "queue"])]
            /\ UNCHANGED <<ret, hist>>
       ELSE /\ pending' = TRUE
            /\ lock' = "free"
            /\ stack' = [stack EXCEPT ![c] = Pop(@)]
            /\ ret' = 0
            /\ hist' = HistCoalesce(hist, serial_state)
            /\ UNCHANGED <<notify_req, req>>
    /\ UNCHANGED <<CONFIG_LGE, ctrl_id, budget, serial_state, outstanding>>
    /\ UNCHANGED <<svars, avars, lvars>>

\* usb_ep_queue (line 663) fails: the request is not queued
EpQueueFail(c) ==
    /\ Running(c, "queue")
    /\ \E e \in QueueErrors :
         stack' = [stack EXCEPT ![c] = SetTop(@, [Top(c) EXCEPT !.pc = "relock", !.st = e])]
    /\ hist' = HistQueue(hist)
    /\ UNCHANGED <<CONFIG_LGE, ctrl_id, budget, notify_req, pending, serial_state, lock, req,
                   outstanding, ret>>
    /\ UNCHANGED <<svars, avars, lvars>>

\* usb_ep_queue (line 663) queues the transfer and returns 0
EpQueueOk(c) ==
    /\ Running(c, "queue")
    /\ outstanding' = IF outstanding < 2 THEN outstanding + 1 ELSE outstanding
    /\ stack' = [stack EXCEPT ![c] = SetTop(@, [Top(c) EXCEPT !.pc = "relock", !.st = 0])]
    /\ hist' = HistQueue(hist)
    /\ UNCHANGED <<CONFIG_LGE, ctrl_id, budget, notify_req, pending, serial_state, lock, req, ret>>
    /\ UNCHANGED <<svars, avars, lvars>>

\* acm_cdc_notify_complete, lines 697-710, called in context c with
\* req->status = rs; below are the frames of c it returns to.  The follow-up
\* call of line 710 is the handler's last statement.
CompleteHandler(c, rs, below, h) ==
    /\ lock = "free"
    /\ notify_req' = "REQ"
    /\ lock' = "free"
    /\ stack' = [stack EXCEPT ![c] =
                   IF CompleteDoit(rs, pending)
                   THEN Append(below, Frame("notify", 0, 0, "complete"))
                   ELSE below]
    /\ hist' = HistComplete(h, c, rs, pending)

\* usb_ep_queue (line 663) completes the transfer before it returns ("ep_queue()
\* can complete immediately if it fills the fifo", line 661): the completion
\* handler runs nested in the caller
EpQueueSync(c) ==
    /\ Running(c, "queue")
    /\ Len(stack[c]) < MaxDepth
    /\ CompleteHandler(c, 0, SetTop(stack[c], [Top(c) EXCEPT !.pc = "relock", !.st = 0]),
                       HistQueue(hist))
    /\ UNCHANGED <<CONFIG_LGE, ctrl_id, budget, pending, serial_state, req, outstanding, ret>>
    /\ UNCHANGED <<svars, avars, lvars>>

\* acm_cdc_notify from the spin_lock of line 664 to its return, and the
\* return of acm_notify_serial_state (lines 691-692)
NotifyReturn(c) ==
    /\ Running(c, "relock")
    /\ lock = "free"
    /\ notify_req' = SlotAfterQueue(Top(c).st, notify_req)
    /\ lock' = "free"
    /\ ret' = Top(c).st
    /\ stack' = [stack EXCEPT ![c] = Pop(@)]
    /\ hist' = IF Top(c).st < 0 THEN HistBreak(hist) ELSE hist
    /\ UNCHANGED <<CONFIG_LGE, ctrl_id, budget, pending, serial_state, req, outstanding>>
    /\ UNCHANGED <<svars, avars, lvars>>

\* the UDC gives a queued transfer back with status rs: it calls
\* req->complete, which is acm_cdc_notify_complete (line 885), in its own
\* context
GiveBackWith(statuses) ==
    /\ outstanding > 0
    /\ stack["irq"] = <<>>
    /\ outstanding' = outstanding - 1
    /\ \E rs \in statuses : CompleteHandler("irq", rs, <<>>, hist)
    /\ UNCHANGED <<CONFIG_LGE, ctrl_id, budget, pending, serial_state, req, ret>>
    /\ UNCHANGED <<svars, avars, lvars>>

GiveBack == GiveBackWith(CompleteStatuses)

\* ---------------------------------------------------------- control requests

USB_CDC_REQ_SET_LINE_CODING == 32
USB_CDC_REQ_GET_LINE_CODING == 33
USB_CDC_REQ_SET_CONTROL_LINE_STATE == 34
\* USB_DIR_OUT | USB_TYPE_CLASS | USB_RECIP_INTERFACE
REQTYPE_OUT_CLASS_INTERFACE == 33
\* USB_DIR_IN | USB_TYPE_CLASS | USB_RECIP_INTERFACE
REQTYPE_IN_CLASS_INTERFACE == 161
\* sizeof(struct usb_cdc_line_coding)
SIZEOF_LINE_CODING == 7

\* a struct usb_ctrlrequest as it arrives: u8 fields as numbers, the __le16
\* fields as their two bytes
CtrlRequest(type, request, value, index, length) ==
    [ bRequestType |-> type, bRequest |-> request, wValue |-> Le16Bytes(value),
      wIndex |-> Le16Bytes(index), wLength |-> Le16Bytes(length) ]

le16_to_cpu(b) == Le16Value(b)

\* acm_setup, line 464: (ctrl->bRequestType << 8) | ctrl->bRequest
SetupCase(ctrl) == ctrl.bRequestType * 256 + ctrl.bRequest

\* (variant of SetLineCodingInvalid: the length of the data stage is not checked)
SetLineCodingInvalid_anyLength(w_length, w_index) == w_index # ctrl_id

\* acm_setup, lines 469-471: SET_LINE_CODING is refused
SetLineCodingInvalid(w_length, w_index) ==
    w_length # SIZEOF_LINE_CODING \/ w_index # ctrl_id

\* (variant of GetLineCodingValue: the requested length is not limited)
GetLineCodingValue_unlimited(w_length) == w_length

\* acm_setup, lines 484-485: min_t(unsigned, w_length, sizeof(line coding))
GetLineCodingValue(w_length) ==
    IF w_length < SIZEOF_LINE_CODING THEN w_length ELSE SIZEOF_LINE_CODING

\* memcpy(dst, src, n) into a buffer of which the model keeps Len(dst) bytes
Memcpy(dst, src, n) ==
    [i \in 1..Len(dst) |-> IF i <= n /\ i <= Len(src) THEN src[i] ELSE dst[i]]

\* (variant of HandshakeBits: only DTR and RTS are kept)
HandshakeBits_masked(w_value) == BitAnd(w_value, 3)

\* acm_setup, line 501: what is stored in port_handshake_bits
HandshakeBits(w_value) == ToU16(w_value)

\* (variant of ModemCalls: the callback is called without the check)
ModemCalls_unchecked(registered, w_value) == <<w_value>>

\* acm_setup, lines 511-516: the calls of acm->port.notify_modem
ModemCalls(registered, w_value) == IF registered THEN <<w_value>> ELSE <<>>

\* acm_setup, lines 451-525: the switch.  The result holds the local value
\* and what the function has written when it reaches line 527.
acm_setup_switch(ctrl) ==
    LET w_index  == le16_to_cpu(ctrl.wIndex)
        w_value  == le16_to_cpu(ctrl.wValue)
        w_length == le16_to_cpu(ctrl.wLength)
        invalid  == [ value |-> -EOPNOTSUPP, complete |-> ep0req.complete,
                      driver_data |-> ep0.driver_data, buf |-> ep0req.buf,
                      handshake |-> port_handshake_bits, calls |-> <<>> ]
    IN  CASE SetupCase(ctrl) = REQTYPE_OUT_CLASS_INTERFACE * 256 + USB_CDC_REQ_SET_LINE_CODING ->
               IF SetLineCodingInvalid(w_length, w_index) THEN invalid
               ELSE [invalid EXCEPT !.value = w_length, !.driver_data = "acm",
                                    !.complete = "acm_complete_set_line_coding"]
          [] SetupCase(ctrl) = REQTYPE_IN_CLASS_INTERFACE * 256 + USB_CDC_REQ_GET_LINE_CODING ->
               IF w_index # ctrl_id THEN invalid
               ELSE [invalid EXCEPT !.value = GetLineCodingValue(w_length),
                                    !.buf = Memcpy(ep0req.buf, port_line_coding,
                                                   GetLineCodingValue(w_length))]
          [] SetupCase(ctrl) = REQTYPE_OUT_CLASS_INTERFACE * 256
                               + USB_CDC_REQ_SET_CONTROL_LINE_STATE ->
               IF w_index # ctrl_id THEN invalid
               ELSE [invalid EXCEPT !.value = 0, !.handshake = HandshakeBits(w_value),
                                    !.calls = ModemCalls(notify_modem, w_value)]
          [] OTHER -> invalid

\* what usb_ep_queue on ep0 returns when it fails
Ep0QueueErrors == {-ESHUTDOWN}

\* acm_setup, lines 446-543, called for the request ctrl; q is what
\* usb_ep_queue returns if it is called (line 535)
acm_setup(ctrl, q) ==
    LET r == acm_setup_switch(ctrl)
    IN  /\ ep0.dispatch
        /\ port_handshake_bits' = r.handshake
        /\ modem_calls' = r.calls
        /\ IF r.value >= 0
           THEN /\ ep0req' = [complete |-> r.complete, zero |-> 0, length |-> r.value,
                              buf |-> r.buf]
                /\ ep0' = [ep0 EXCEPT !.dispatch = FALSE, !.driver_data = r.driver_data,
                                      !.queued = (q = 0),
                                      !.dir = IF ctrl.bRequestType >= 128 THEN "in" ELSE "out"]
                /\ setup_ret' = q
           ELSE /\ ep0req' = [ep0req EXCEPT !.complete = r.complete, !.buf = r.buf]
                /\ ep0' = [ep0 EXCEPT !.dispatch = FALSE, !.driver_data = r.driver_data]
                /\ setup_ret' = r.value
        /\ UNCHANGED <<port_line_coding, notify_modem, rx>>
        /\ UNCHANGED <<nvars, avars, lvars>>

\* (variant of LineCodingAfterComplete: a short data stage is accepted)
LineCodingAfterComplete_short(status, actual, buf, old) ==
    IF status # 0 THEN old ELSE SubSeq(buf, 1, SIZEOF_LINE_CODING)

\* (variant of LineCodingAfterComplete: the received bytes are not kept)
LineCodingAfterComplete_dropped(status, actual, buf, old) == old

\* acm_complete_set_line_coding, lines 421-443: port_line_coding afterwards
LineCodingAfterComplete(status, actual, buf, old) ==
    IF status # 0 THEN old
    ELSE IF actual # SIZEOF_LINE_CODING THEN old
    ELSE SubSeq(buf, 1, SIZEOF_LINE_CODING)

\* acm_complete_set_line_coding, lines 421-431: usb_ep_set_halt is called
HaltAfterComplete(status, actual) == status = 0 /\ actual # SIZEOF_LINE_CODING

\* line codings the host sends: 115200 8-N-1 and 9600 7-E-2
HostLineCodings == {<<0, 194, 1, 0, 0, 0, 8>>, <<128, 37, 0, 0, 2, 2, 7>>}
\* lengths a data stage ends with, and its statuses
ActualLengths == {0, 5, SIZEOF_LINE_CODING}
Ep0Statuses == {0, -ECONNRESET}

\* the UDC gives the ep0 request back: an OUT data stage has put actual
\* bytes of data into req->buf; req->complete is called, and does something
\* when it is acm_complete_set_line_coding (lines 415-444)
Ep0Complete(status, actual, data) ==
    LET buf == IF ep0.dir = "out" THEN Memcpy(ep0req.buf, data, actual) ELSE ep0req.buf
        acm == ep0req.complete = "acm_complete_set_line_coding"
    IN  /\ ep0.queued
        /\ actual <= ep0req.length
        /\ ep0req' = [ep0req EXCEPT !.buf = buf]
        /\ port_line_coding' =
             IF acm THEN LineCodingAfterComplete(status, actual, buf, port_line_coding)
             ELSE port_line_coding
        /\ ep0' = [ep0 EXCEPT !.queued = FALSE,
                              !.halted = @ \/ (acm /\ HaltAfterComplete(status, actual))]
        /\ rx' = IF acm /\ ep0.dir = "out" /\ status = 0 /\ actual = SIZEOF_LINE_CODING
                 THEN SubSeq(data, 1, actual) ELSE rx
        /\ UNCHANGED <<port_handshake_bits, notify_modem, modem_calls, setup_ret>>
        /\ UNCHANGED <<nvars, avars, lvars>>

\* the composite framework receives a SETUP packet and, before it calls
\* f->setup, resets its ep0 request; a SETUP packet ends a protocol stall
SetupPacket ==
    /\ ~ep0.queued
    /\ ~ep0.dispatch
    /\ ep0req' = [ep0req EXCEPT !.complete = "composite_setup_complete", !.length = 0,
                                !.zero = 0]
    /\ ep0' = [ep0 EXCEPT !.driver_data = "cdev", !.halted = FALSE, !.dispatch = TRUE]
    /\ UNCHANGED <<port_line_coding, port_handshake_bits, notify_modem, modem_calls,
                   setup_ret, rx>>
    /\ UNCHANGED <<nvars, avars, lvars>>

\* the control requests the host sends: every pairing of a request type
\* with a request code, for this interface and for two others; the three
\* requests of acm_setup with several data lengths and values
RequestTypes ==
    {REQTYPE_OUT_CLASS_INTERFACE, REQTYPE_IN_CLASS_INTERFACE, REQTYPE_OUT_CLASS_INTERFACE - 1}
RequestCodes ==
    {USB_CDC_REQ_SET_LINE_CODING, USB_CDC_REQ_GET_LINE_CODING,
     USB_CDC_REQ_SET_CONTROL_LINE_STATE, USB_CDC_REQ_SET_CONTROL_LINE_STATE + 1}
Interfaces == {ctrl_id, ctrl_id + 1, ctrl_id + 256}
DataLengths == {0, 5, SIZEOF_LINE_CODING, SIZEOF_LINE_CODING + 1, SIZEOF_LINE_CODING + 256}
LineStates == {3, 258}
CtrlRequests ==
    { CtrlRequest(type, request, 0, index, SIZEOF_LINE_CODING) :
        type \in RequestTypes, request \in RequestCodes, index \in Interfaces }
    \cup
    { CtrlRequest(REQTYPE_OUT_CLASS_INTERFACE, USB_CDC_REQ_SET_LINE_CODING, 0, ctrl_id, length) :
        length \in DataLengths }
    \cup
    { CtrlRequest(REQTYPE_IN_CLASS_INTERFACE, USB_CDC_REQ_GET_LINE_CODING, 0, ctrl_id, length) :
        length \in DataLengths }
    \cup
    { CtrlRequest(REQTYPE_OUT_CLASS_INTERFACE, USB_CDC_REQ_SET_CONTROL_LINE_STATE, value,
                  index, 0) : value \in LineStates, index \in Interfaces }

\* the control side of the port after acm_alloc_func (kzalloc, line 987);
\* the transport may register its notify_modem callback when it connects
SetupInit(callbacks) ==
    /\ port_line_coding = Zeros(SIZEOF_LINE_CODING)
    /\ port_handshake_bits = 0
    /\ notify_modem \in callbacks
    /\ modem_calls = <<>>
    /\ ep0req = [complete |-> "composite_setup_complete", zero |-> 0, length |-> 0,
                 buf |-> Zeros(SIZEOF_LINE_CODING)]
    /\ ep0 = [driver_data |-> "cdev", queued |-> FALSE, dir |-> "out", halted |-> FALSE,
              dispatch |-> FALSE]
    /\ setup_ret = 0
    /\ rx = <<>>

\* ---------------------------------------------------------------- activation

EINVAL == 22
ENODEV == 19

\* acm_bind, lines 828-840: usb_interface_id hands out consecutive ids
data_id == ctrl_id + 1

\* usb_ep_disable: no usb_ep_enable is in effect any more; the UDC may clear
\* ep->desc (clear)
usb_ep_disable(ep, clear) ==
    [ep EXCEPT !.enabled = 0, !.desc = IF clear THEN FALSE ELSE @]

\* usb_ep_enable: one more enable in effect (counted up to 2)
usb_ep_enable(ep) == [ep EXCEPT !.enabled = IF @ < 2 THEN @ + 1 ELSE @]

\* acm_port_connect, lines 133-158: gserial_connect and gsmd_connect attach
\* the port to its endpoints (port.in->driver_data) and start the transport
acm_port_connect(tr, pe, conn) ==
    IF tr \in {"TTY", "SMD"}
    THEN [ret |-> 0, connected |-> TRUE, port_ep |-> [pe EXCEPT !.driver_data = "port"]]
    ELSE [ret |-> -ENODEV, connected |-> conn, port_ep |-> pe]

\* acm_port_disconnect, lines 160-184: gserial_disconnect and gsmd_disconnect
\* disable the data endpoints and detach the port
acm_port_disconnect(tr, pe, conn, clear) ==
    IF tr \in {"TTY", "SMD"}
    THEN [ret |-> 0, connected |-> FALSE,
          port_ep |-> [pe EXCEPT !.driver_data = "NULL",
                                 !.in_desc = IF clear THEN FALSE ELSE @,
                                 !.out_desc = IF clear THEN FALSE ELSE @]]
    ELSE [ret |-> -ENODEV, connected |-> conn, port_ep |-> pe]

\* usb_ep_disable on the notification endpoint gives a transfer that is in
\* flight back with -ESHUTDOWN: acm_cdc_notify_complete runs (lines 697-710)
NotifyShutDown(disabled) ==
    IF disabled /\ outstanding > 0
    THEN /\ outstanding' = 0
         /\ CompleteHandler("irq", -ESHUTDOWN, stack["irq"], hist)
         /\ UNCHANGED <<CONFIG_LGE, ctrl_id, budget, pending, serial_state, req, ret>>
    ELSE UNCHANGED nvars

\* (variant of NotifyResetNeeded: the endpoint is never disabled first)
NotifyResetNeeded_never(driver_data) == FALSE

\* acm_set_alt, line 553: if (acm->notify->driver_data)
NotifyResetNeeded(driver_data) == driver_data # "NULL"

\* acm_set_alt, lines 567-571: a data interface that is active is reset
PortAfterReset ==
    IF port_ep.driver_data # "NULL"
    THEN acm_port_disconnect(transport, port_ep, connected, notify_ep.udc_clears)
    ELSE [ret |-> 0, connected |-> connected, port_ep |-> port_ep]

\* acm_set_alt, line 572: if (!acm->port.in->desc || !acm->port.out->desc)
NeedsDataBind == ~PortAfterReset.port_ep.in_desc \/ ~PortAfterReset.port_ep.out_desc

\* (variant of DataEpsAfterBindFail: the descriptors are left as they are)
DataEpsAfterBindFail_kept(pe) == pe

\* acm_set_alt, lines 579-580: both descriptors are dropped
DataEpsAfterBindFail(pe) == [pe EXCEPT !.in_desc = FALSE, !.out_desc = FALSE]

\* acm_set_alt, lines 575-581: config_ep_by_speed fails for .in, or
\* succeeds for .in (in_ok, its desc is set) and fails for .out
DataBindFailed(pe, in_ok) ==
    [DataEpsAfterBindFail(IF in_ok THEN [pe EXCEPT !.in_desc = TRUE] ELSE pe)
       EXCEPT !.bound = "failed"]

\* acm_set_alt, lines 572-582 without a failure: both descriptors are set
\* if one was missing
DataBindDone(pe) ==
    IF ~pe.in_desc \/ ~pe.out_desc
    THEN [pe EXCEPT !.in_desc = TRUE, !.out_desc = TRUE,
                    !.bound = IF @ = "failed" THEN "again" ELSE "no"]
    ELSE [pe EXCEPT !.bound = "no"]

\* acm_set_alt, lines 545-590; cfg_ok: config_ep_by_speed succeeds when it
\* is called
acm_set_alt(intf, alt, cfg_ok) ==
    /\ IF intf = ctrl_id
       THEN LET reset == NotifyResetNeeded(notify_ep.driver_data)
                ep    == IF reset THEN usb_ep_disable(notify_ep, notify_ep.udc_clears) ELSE notify_ep
            IN  /\ IF ~ep.desc /\ ~cfg_ok
                   THEN /\ notify_ep' = [ep EXCEPT !.reset = reset /\ notify_ep.enabled > 0]
                        /\ alt_ret' = -EINVAL
                   ELSE /\ notify_ep' = [usb_ep_enable([ep EXCEPT !.desc = TRUE])
                                           EXCEPT !.driver_data = "acm",
                                                  !.reset = reset /\ notify_ep.enabled > 0]
                        /\ alt_ret' = 0
                /\ NotifyShutDown(reset)
                /\ UNCHANGED <<port_ep, connected>>
       ELSE IF intf = data_id
       THEN LET d == PortAfterReset
            IN  /\ IF NeedsDataBind /\ ~cfg_ok
                   THEN /\ \E in_ok \in BOOLEAN : port_ep' = DataBindFailed(d.port_ep, in_ok)
                        /\ connected' = d.connected
                        /\ alt_ret' = -EINVAL
                   ELSE LET c == acm_port_connect(transport, DataBindDone(d.port_ep),
                                                  d.connected)
                        IN  /\ port_ep' = c.port_ep
                            /\ connected' = c.connected
                            /\ alt_ret' = 0
                /\ UNCHANGED notify_ep
                /\ UNCHANGED nvars
       ELSE /\ alt_ret' = -EINVAL
            /\ UNCHANGED <<notify_ep, port_ep, connected>>
            /\ UNCHANGED nvars
    /\ UNCHANGED transport
    /\ UNCHANGED <<svars, lvars>>

\* (variant of DriverDataAfterDisable: the marker is left as it is)
DriverDataAfterDisable_kept(driver_data) == driver_data

\* acm_disable, line 600: acm->notify->driver_data = NULL
DriverDataAfterDisable(driver_data) == "NULL"

\* acm_disable, lines 597-600: the endpoints and the transport afterwards
acm_disable_state(ne, pe, conn) ==
    LET d == acm_port_disconnect(transport, pe, conn, ne.udc_clears)
    IN  [notify_ep |-> [usb_ep_disable(ne, ne.udc_clears)
                          EXCEPT !.driver_data = DriverDataAfterDisable(@), !.reset = FALSE],
         port_ep |-> d.port_ep,
         connected |-> d.connected]

\* acm_disable, lines 592-601
acm_disable ==
    /\ LET d == acm_disable_state(notify_ep, port_ep, connected)
       IN  notify_ep' = d.notify_ep /\ port_ep' = d.port_ep /\ connected' = d.connected
    /\ NotifyShutDown(TRUE)
    /\ UNCHANGED <<transport, alt_ret>>
    /\ UNCHANGED <<svars, lvars>>

\* the interfaces and alternate settings of the SET_INTERFACE requests
AltInterfaces == {ctrl_id, data_id, data_id + 1}
AltSettings == {0, 1}

\* the endpoints after acm_bind: claimed (lines 864, 870, 876), or released
\* again by the framework; not enabled, no descriptor chosen
AltInit(transports) ==
    /\ transport \in transports
    /\ \E claim \in {"cdev", "NULL"}, clears \in BOOLEAN :
         /\ notify_ep = [enabled |-> 0, desc |-> FALSE, driver_data |-> claim,
                         reset |-> FALSE, udc_clears |-> clears]
         /\ port_ep = [in_desc |-> FALSE, out_desc |-> FALSE, driver_data |-> claim,
                       bound |-> "no"]
    /\ connected = FALSE
    /\ alt_ret = 0

\* both interfaces of a TTY port have been activated
ActiveInit ==
    /\ transport = "TTY"
    /\ notify_ep = [enabled |-> 1, desc |-> TRUE, driver_data |-> "acm", reset |-> FALSE,
                    udc_clears |-> TRUE]
    /\ port_ep = [in_desc |-> TRUE, out_desc |-> TRUE, driver_data |-> "port",
                  bound |-> "no"]
    /\ connected = TRUE
    /\ alt_ret = 0

\* ----------------------------------------------------------------- lifecycle

\* acm_bind, lines 879-881: the size of the buffer gs_alloc_req is asked for
\* (gadget->extra_buf_alloc, which a controller may add, taken as zero)
NotifyBufSize == SIZEOF_NOTIFICATION + 2

\* the request as gs_alloc_req returns it (line 879): nothing filled in yet
FreshRequest ==
    [ length |-> 0, bmRequestType |-> 0, bNotificationType |-> 0, wValue |-> <<0, 0>>,
      wIndex |-> <<0, 0>>, wLength |-> <<0, 0>>, data |-> <<>> ]

\* acm_next_free_port is an unsigned int (line 84): its 32 bits are kept
\* as two halves of 16 bits, hi and lo
u32(n) == [hi |-> n \div U16, lo |-> n % U16]
u32_inc(v) == IF v.lo = U16 - 1
              THEN [hi |-> (v.hi + 1) % U16, lo |-> 0]
              ELSE [v EXCEPT !.lo = @ + 1]
u32_dec(v) == IF v.lo = 0
              THEN [hi |-> (v.hi - 1) % U16, lo |-> U16 - 1]
              ELSE [v EXCEPT !.lo = @ - 1]

\* other functions that are allocated at the same time
MaxOthers == 1
\* acm_next_free_port is followed this far below zero
MaxWrap == 2

\* gs_free_req on the memory of the notification request
gs_free_req(mem) == IF mem = "live" THEN "freed" ELSE "double"

GSERIAL_NO_PORTS == 4
SIZEOF_U8 == 256

\* acm_alloc_func, lines 995-996: opts->port_num (an unsigned char) takes
\* acm_next_free_port if ports were set up, and keeps the line of its
\* instance otherwise
PortNumAtAlloc(line) ==
    IF nr_acm_ports # 0 THEN acm_next_free_port.lo % SIZEOF_U8 ELSE line

\* the sequence s without its element k
RemoveAt(s, k) == [j \in 1..(Len(s) - 1) |-> IF j < k THEN s[j] ELSE s[j + 1]]

\* acm_alloc_func, lines 982-1025, for this function or another one; ok:
\* kzalloc succeeds.  The new f_acm is all zero (line 987).
acm_alloc_func(this, ok) ==
    /\ IF this THEN life.st = "none" ELSE life.others < MaxOthers
    /\ IF ~ok
       THEN UNCHANGED <<nvars, lvars>>
       ELSE /\ acm_next_free_port' = IF nr_acm_ports # 0
                                     THEN u32_inc(acm_next_free_port)
                                     ELSE acm_next_free_port
            /\ port_num' = IF this
                           THEN [port_num EXCEPT !.this = PortNumAtAlloc(@)]
                           ELSE [port_num EXCEPT
                                   !.others = Append(@, PortNumAtAlloc(Len(@) + 1))]
            /\ IF this
               THEN /\ life' = [life EXCEPT !.st = "alloc"]
                    /\ notify_req' = "NULL"
                    /\ pending' = FALSE
                    /\ serial_state' = 0
                    /\ ctrl_id' = 0
                    /\ acm_eps' = [in |-> FALSE, out |-> FALSE, notify |-> FALSE,
                                   out_data |-> acm_eps.out_data]
                    /\ req_mem' = "none"
               ELSE /\ life' = [life EXCEPT !.others = @ + 1]
                    /\ UNCHANGED <<notify_req, pending, serial_state, ctrl_id, acm_eps, req_mem>>
            /\ UNCHANGED <<CONFIG_LGE, lock, req, outstanding, stack, ret, budget, hist,
                           nr_acm_ports, bind_ret>>
    /\ UNCHANGED <<svars, avars>>

\* acm_free_func, lines 974-980, for this function (unbound, no call of a
\* callback under way) or another one
acm_free_func(this) ==
    /\ IF this THEN life.st = "alloc" /\ \A c \in Ctx : stack[c] = <<>>
               ELSE life.others > 0
    /\ acm_next_free_port.hi = 0 \/ acm_next_free_port.lo > U16 - MaxWrap
    /\ acm_next_free_port' = u32_dec(acm_next_free_port)
    /\ life' = IF this THEN [life EXCEPT !.st = "none"] ELSE [life EXCEPT !.others = @ - 1]
    /\ IF this
       THEN UNCHANGED port_num
       ELSE \E k \in 1..Len(port_num.others) :
              port_num' = [port_num EXCEPT !.others = RemoveAt(@, k)]
    /\ UNCHANGED <<nr_acm_ports, bind_ret, acm_eps, req_mem>>
    /\ UNCHANGED <<nvars, svars, avars>>

\* (variant of ClaimAfterBindFail: the claim is not released)
ClaimAfterBindFail_kept(set, claim) == claim

\* acm_bind, lines 919-924: ep->driver_data of an endpoint acm points to
ClaimAfterBindFail(set, claim) == IF set THEN "NULL" ELSE claim

\* the steps of acm_bind that can fail: 1 usb_gstrings_attach, 2 and 3
\* usb_interface_id, 4 to 6 usb_ep_autoconfig of in, out and notify,
\* 7 gs_alloc_req, 8 usb_assign_descriptors; 0: none fails
BindFailures == 0..8
\* what a failing framework call returns
BindErrors == {-ENOMEM, -ENODEV}
\* the interface id usb_interface_id hands out first (the function is not
\* the first of its configuration)
BindIds == {2}

\* acm_bind, lines 810-929: step fail fails (with err where the framework
\* gives the error), usb_interface_id hands out id and id + 1
acm_bind(fail, err, id) ==
    LET Done(k)   == fail = 0 \/ fail > k
        has_in    == acm_eps.in \/ Done(4)
        has_out   == acm_eps.out \/ Done(5)
        has_ntf   == acm_eps.notify \/ Done(6)
        in_data   == IF Done(4) THEN "cdev" ELSE port_ep.driver_data
        out_data  == IF Done(5) THEN "cdev" ELSE acm_eps.out_data
        ntf_data  == IF Done(6) THEN "cdev" ELSE notify_ep.driver_data
        slot      == IF Done(7) THEN "REQ" ELSE IF fail = 7 THEN "NULL" ELSE notify_req
        mem       == IF Done(7) THEN "live" ELSE req_mem
    IN  /\ life.st = "alloc"
        /\ fail = 1 => ~(CONFIG_LGE /\ life.strings)
        /\ IF fail = 1
           THEN /\ bind_ret' = err
                /\ UNCHANGED <<ctrl_id, notify_req, req, notify_ep, port_ep, life, acm_eps,
                               req_mem>>
           ELSE /\ ctrl_id' = IF Done(2) THEN id ELSE ctrl_id
                /\ notify_req' = slot
                /\ req' = IF Done(7) THEN FreshRequest ELSE req
                /\ IF fail = 0
                   THEN /\ bind_ret' = 0
                        /\ life' = [life EXCEPT !.st = "bound", !.strings = TRUE]
                        /\ req_mem' = mem
                        /\ notify_ep' = [notify_ep EXCEPT !.driver_data = ntf_data]
                        /\ port_ep' = [port_ep EXCEPT !.driver_data = in_data]
                        /\ acm_eps' = [in |-> TRUE, out |-> TRUE, notify |-> TRUE,
                                       out_data |-> out_data]
                   ELSE /\ bind_ret' = IF fail \in {2, 3, 8} THEN err ELSE -ENODEV
                        /\ life' = [life EXCEPT !.strings = TRUE]
                        /\ req_mem' = IF slot # "NULL" THEN gs_free_req(mem) ELSE mem
                        /\ notify_ep' = [notify_ep EXCEPT
                                           !.driver_data = ClaimAfterBindFail(has_ntf, ntf_data)]
                        /\ port_ep' = [port_ep EXCEPT
                                         !.driver_data = ClaimAfterBindFail(has_in, in_data)]
                        /\ acm_eps' = [in |-> has_in, out |-> has_out, notify |-> has_ntf,
                                       out_data |-> ClaimAfterBindFail(has_out, out_data)]
        /\ UNCHANGED <<CONFIG_LGE, pending, serial_state, lock, outstanding, stack, ret,
                       budget, hist>>
        /\ UNCHANGED <<transport, connected, alt_ret>>
        /\ UNCHANGED <<nr_acm_ports, acm_next_free_port, port_num>>
        /\ UNCHANGED svars

\* acm_unbind, line 970: if (acm->notify_req)
UnbindFrees(slot) == slot # "NULL"

\* acm_unbind, lines 964-972; the framework has deactivated the function
\* before (or never activated it)
acm_unbind ==
    /\ life.st = "bound"
    /\ notify_ep.enabled = 0 /\ ~connected
    /\ life' = [life EXCEPT !.st = "alloc"]
    /\ req_mem' = IF UnbindFrees(notify_req) THEN gs_free_req(req_mem) ELSE req_mem
    /\ UNCHANGED <<nr_acm_ports, acm_next_free_port, bind_ret, acm_eps, port_num>>
    /\ UNCHANGED <<nvars, svars, avars>>

\* one function was allocated for the first of two ports and bound
BoundInit ==
    /\ nr_acm_ports = 2
    /\ acm_next_free_port = u32(1)
    /\ life = [st |-> "bound", strings |-> TRUE, others |-> 0]
    /\ bind_ret = 0
    /\ acm_eps = [in |-> TRUE, out |-> TRUE, notify |-> TRUE, out_data |-> "port"]
    /\ req_mem = "live"
    /\ port_num = [this |-> 0, others |-> <<>>]

\* the port after acm_alloc_func (kzalloc, line 987) and a successful
\* acm_bind, in the build lge
NotifyInit(lge, on, events, id) ==
    /\ CONFIG_LGE = lge
    /\ budget = events
    /\ ctrl_id = id
    /\ notify_req = "REQ"
    /\ pending = FALSE
    /\ serial_state = 0
    /\ lock = "free"
    /\ req = FreshRequest
    /\ outstanding = 0
    /\ stack = [c \in Ctx |-> <<>>]
    /\ ret = 0
    /\ hist = HistNone(on)

NotifyNext ==
    \/ \E t \in Threads : StartEvent(t)
    \/ \E t \in Threads : WriteState(t)
    \/ \E c \in Ctx : NotifyEnter(c)
    \/ \E c \in Ctx : EpQueueFail(c)
    \/ \E c \in Ctx : EpQueueOk(c)
    \/ \E c \in Ctx : EpQueueSync(c)
    \/ \E c \in Ctx : NotifyReturn(c)
    \/ GiveBack

\* both builds, every event of the transport
Init == BoundInit /\ ActiveInit /\ SetupInit({FALSE}) /\ \E lge \in BOOLEAN : NotifyInit(lge, FALSE, -1, 0)
Spec == Init /\ [][NotifyNext]_vars

\* the mainline build, with the batches of coalesced calls observed
CoalesceInit == BoundInit /\ ActiveInit /\ SetupInit({FALSE}) /\ NotifyInit(FALSE, TRUE, -1, 0)
SpecCoalesce == CoalesceInit /\ [][NotifyNext]_vars

\* the control requests of a bound port; the interface ids are those of a
\* function that is first or second in its configuration
SetupSpecInit == BoundInit /\ ActiveInit /\ SetupInit(BOOLEAN) /\ \E id \in {0, 2} : NotifyInit(FALSE, FALSE, 0, id)

SetupNext ==
    \/ SetupPacket
    \/ \E ctrl \in CtrlRequests, q \in {0} \cup Ep0QueueErrors : acm_setup(ctrl, q)
    \/ \E status \in Ep0Statuses, actual \in ActualLengths, data \in HostLineCodings :
         Ep0Complete(status, actual, data)

SpecSetup == SetupSpecInit /\ [][SetupNext]_vars

\* the executions of claim C3: the transport begins MaxChanges events and
\* no more, usb_ep_queue does not fail, and no transfer completes with
\* -ESHUTDOWN.  Every context that can run does run, and every queued
\* transfer is given back.
MaxChanges == 3

LiveGiveBack == GiveBackWith(CompleteStatuses \ {-ESHUTDOWN})

LiveInit == BoundInit /\ ActiveInit /\ SetupInit({FALSE}) /\ \E lge \in BOOLEAN : NotifyInit(lge, FALSE, MaxChanges, 0)

LiveNext ==
    \/ \E t \in Threads : StartEvent(t)
    \/ \E t \in Threads : WriteState(t)
    \/ \E c \in Ctx : NotifyEnter(c)
    \/ \E c \in Ctx : EpQueueOk(c)
    \/ \E c \in Ctx : EpQueueSync(c)
    \/ \E c \in Ctx : NotifyReturn(c)
    \/ LiveGiveBack

SpecLive ==
    /\ LiveInit
    /\ [][LiveNext]_vars
    /\ \A t \in Threads : WF_vars(WriteState(t))
    /\ \A c \in Ctx : WF_vars(NotifyEnter(c))
    /\ \A c \in Ctx : WF_vars(EpQueueOk(c) \/ EpQueueSync(c))
    /\ \A c \in Ctx : WF_vars(NotifyReturn(c))
    /\ WF_vars(LiveGiveBack)

\* gserial connects the port and disconnects it right away: thread t1 calls
\* acm_connect and, when that has returned, acm_disconnect; no submission
\* fails and no transfer is shut down.  An earlier acm_send_break may have
\* left ACM_CTRL_BRK set; its notification is over when acm_connect is called.
ConnectThenDisconnect ==
    /\ budget = 2 => outstanding = 0 /\ stack["irq"] = <<>>
    /\ StartEventOf("t1", CASE budget = 3 -> {[op |-> "send_break", arg |-> d] : d \in {0, 1}}
                            [] budget = 2 -> {[op |-> "connect", arg |-> 0]}
                            [] OTHER -> {[op |-> "disconnect", arg |-> 0]})

ConnectInit ==
    BoundInit /\ ActiveInit /\ SetupInit({FALSE}) /\ \E lge \in BOOLEAN, id \in {0, 2} : NotifyInit(lge, FALSE, 3, id)

ConnectNext ==
    \/ ConnectThenDisconnect
    \/ WriteState("t1")
    \/ \E c \in Ctx : NotifyEnter(c)
    \/ \E c \in Ctx : EpQueueOk(c)
    \/ \E c \in Ctx : EpQueueSync(c)
    \/ \E c \in Ctx : NotifyReturn(c)
    \/ LiveGiveBack

SpecConnect ==
    /\ ConnectInit
    /\ [][ConnectNext]_vars
    /\ WF_vars(ConnectThenDisconnect)
    /\ WF_vars(WriteState("t1"))
    /\ \A c \in Ctx : WF_vars(NotifyEnter(c))
    /\ \A c \in Ctx : WF_vars(EpQueueOk(c) \/ EpQueueSync(c))
    /\ \A c \in Ctx : WF_vars(NotifyReturn(c))
    /\ WF_vars(LiveGiveBack)

\* activation and deactivation of a bound function: SET_INTERFACE requests
\* and configuration changes in any order; while the transport is connected
\* its thread t1 makes callbacks, and transfers are queued only on an enabled
\* endpoint
AltSpecInit ==
    /\ BoundInit
    /\ AltInit({"TTY", "SMD", "UNDEF"})
    /\ SetupInit({FALSE})
    /\ NotifyInit(FALSE, FALSE, -1, 0)

AltNext ==
    \/ \E intf \in AltInterfaces, alt \in AltSettings, cfg_ok \in BOOLEAN :
         acm_set_alt(intf, alt, cfg_ok)
    \/ acm_disable
    \/ connected /\ StartEventOf("t1", {[op |-> "connect", arg |-> 0],
                                        [op |-> "disconnect", arg |-> 0]})
    \/ WriteState("t1")
    \/ \E c \in Ctx : NotifyEnter(c)
    \/ \E c \in Ctx : EpQueueFail(c)
    \/ \E c \in Ctx : notify_ep.enabled > 0 /\ EpQueueOk(c)
    \/ \E c \in Ctx : NotifyReturn(c)
    \/ GiveBack

SpecAlt == AltSpecInit /\ [][AltNext]_vars

\* the notifications of a port whose control interface has id 0 or 2: two
\* events of the transport, among them a modem state above 255
WireEvents(lge) == Events(lge) \cup {[op |-> "send_modem_ctrl_bits", arg |-> 256 + ACM_CTRL_DCD]}

WireInit ==
    /\ BoundInit /\ ActiveInit /\ SetupInit({FALSE})
    /\ \E lge \in BOOLEAN, id \in {0, 2} : NotifyInit(lge, FALSE, 2, id)

WireNext ==
    \/ \E t \in Threads : StartEventOf(t, WireEvents(CONFIG_LGE))
    \/ \E t \in Threads : WriteState(t)
    \/ \E c \in Ctx : NotifyEnter(c)
    \/ \E c \in Ctx : EpQueueFail(c)
    \/ \E c \in Ctx : EpQueueOk(c)
    \/ \E c \in Ctx : EpQueueSync(c)
    \/ \E c \in Ctx : NotifyReturn(c)
    \/ GiveBack

SpecWire == WireInit /\ [][WireNext]_vars

\* the life of a function: allocation, bind, activation, callbacks of
\* the connected transport (thread t1), deactivation, unbind and free, with
\* other functions allocated and freed meanwhile; ports are either set up
\* by acm_init_port (nr_acm_ports > 0) or their lines allocated lazily
LifeInit ==
    /\ nr_acm_ports \in {0, 2}
    /\ acm_next_free_port = u32(0)
    /\ life = [st |-> "none", strings |-> FALSE, others |-> 0]
    /\ bind_ret = 0
    /\ acm_eps = [in |-> FALSE, out |-> FALSE, notify |-> FALSE, out_data |-> "NULL"]
    /\ req_mem = "none"
    /\ port_num = [this |-> 0, others |-> <<>>]
    /\ transport = "TTY"
    /\ notify_ep = [enabled |-> 0, desc |-> FALSE, driver_data |-> "NULL", reset |-> FALSE,
                    udc_clears |-> TRUE]
    /\ port_ep = [in_desc |-> FALSE, out_desc |-> FALSE, driver_data |-> "NULL",
                  bound |-> "no"]
    /\ connected = FALSE
    /\ alt_ret = 0
    /\ SetupInit({FALSE})
    /\ CONFIG_LGE \in BOOLEAN
    /\ budget = -1
    /\ ctrl_id = 0
    /\ notify_req = "NULL"
    /\ pending = FALSE
    /\ serial_state = 0
    /\ lock = "free"
    /\ req = FreshRequest
    /\ outstanding = 0
    /\ stack = [c \in Ctx |-> <<>>]
    /\ ret = 0
    /\ hist = HistNone(FALSE)

LifeNext ==
    \/ \E this \in BOOLEAN, ok \in BOOLEAN : acm_alloc_func(this, ok)
    \/ \E this \in BOOLEAN : acm_free_func(this)
    \/ \E fail \in BindFailures, err \in BindErrors, id \in BindIds : acm_bind(fail, err, id)
    \/ acm_unbind
    \/ life.st = "bound" /\ \E intf \in {ctrl_id, data_id} : acm_set_alt(intf, 0, TRUE)
    \/ life.st = "bound" /\ acm_disable
    \/ life.st = "bound" /\ connected /\ StartEventOf("t1", {[op |-> "connect", arg |-> 0]})
    \/ WriteState("t1")
    \/ \E c \in Ctx : NotifyEnter(c)
    \/ \E c \in Ctx : EpQueueFail(c)
    \/ \E c \in Ctx : notify_ep.enabled > 0 /\ EpQueueOk(c)
    \/ \E c \in Ctx : NotifyReturn(c)
    \/ GiveBack

SpecLife == LifeInit /\ [][LifeNext]_vars

\* two events of the transport, begun by two threads at any time, with
\* the event of each store observed
RaceInit ==
    /\ BoundInit /\ ActiveInit /\ SetupInit({FALSE})
    /\ \E lge \in BOOLEAN : NotifyInit(lge, FALSE, 2, 0)

RaceNext ==
    \/ \E t \in Threads : StartEventWith(t, Events(CONFIG_LGE), TRUE)
    \/ \E t \in Threads : WriteState(t)
    \/ \E c \in Ctx : NotifyEnter(c)
    \/ \E c \in Ctx : EpQueueFail(c)
    \/ \E c \in Ctx : EpQueueOk(c)
    \/ \E c \in Ctx : EpQueueSync(c)
    \/ \E c \in Ctx : NotifyReturn(c)
    \/ GiveBack

SpecRace == RaceInit /\ [][RaceNext]_vars

\* the events one after the other
MaxEvents == 3

\* MaxEvents events of the transport, each begun by thread t1 after the
\* one before it returned, with the latest connect or disconnect observed
SequenceInit ==
    /\ BoundInit /\ ActiveInit /\ SetupInit({FALSE})
    /\ \E lge \in BOOLEAN : NotifyInit(lge, FALSE, MaxEvents, 0)

SequenceNext ==
    \/ StartEventWith("t1", Events(CONFIG_LGE), TRUE)
    \/ WriteState("t1")
    \/ \E c \in Ctx : NotifyEnter(c)
    \/ \E c \in Ctx : EpQueueFail(c)
    \/ \E c \in Ctx : EpQueueOk(c)
    \/ \E c \in Ctx : EpQueueSync(c)
    \/ \E c \in Ctx : NotifyReturn(c)
    \/ GiveBack

SpecSequence == SequenceInit /\ [][SequenceNext]_vars

\* ------------------------------------------------------------------ claims

\* contexts that checked the request out and are about to submit it
Submitting == {c \in Ctx : Running(c, "queue")}

\* C1: in every interleaving of acm_notify_serial_state calls, submission
\* results and completions, at most one notification transfer is
\* outstanding; the request is never in the slot while it is in flight or
\* about to be submitted, and it is never handed to usb_ep_queue while an
\* earlier submission of it is still in flight.
C1_AtMostOneOutstanding ==
    /\ outstanding + Cardinality(Submitting) <= 1
    /\ notify_req # "NULL" => outstanding = 0 /\ Submitting = {}

\* a second call arrives while the one transfer is in flight
C1_Witness ==
    /\ outstanding = 1
    /\ notify_req = "NULL"
    /\ pending
    /\ \E t \in Threads : Running(t, "notify")

\* a call of acm_notify_serial_state that finds the slot empty returns 0,
\* sets the pending flag and submits nothing
C2_CallCoalesced ==
    \A c \in Ctx :
      (Running(c, "notify") /\ notify_req = "NULL" /\ stack'[c] # stack[c])
      => /\ pending'
         /\ ret' = 0
         /\ stack'[c] = Pop(stack[c])
         /\ UNCHANGED <<notify_req, req, outstanding, serial_state>>

\* the completion handler that ended a batch is still running
FollowUpUnderWay ==
    \E c \in Ctx : stack[c] # <<>> /\ Top(c).by = "complete" /\ Top(c).pc \in {"notify", "queue"}

\* once the transfer a batch waited for has completed (status other than
\* -ESHUTDOWN), usb_ep_queue is called once, with the serial_state of the
\* last coalesced call as payload, which is the current serial_state
C2_OneFollowUp ==
    hist.phase = "completed"
    => /\ hist.fu <= 1
       /\ hist.fu = 1 => Payload(req) = hist.last /\ hist.last = serial_state
       /\ hist.fu = 0 => FollowUpUnderWay

\* C2: state changes S1, S2, S3 whose acm_notify_serial_state calls find a
\* transfer outstanding submit nothing (each call returns 0 and sets the
\* pending flag); after that transfer completes with a status other than
\* -ESHUTDOWN exactly one follow-up is handed to usb_ep_queue, and its
\* payload is S3, the serial_state at that time.
C2_Coalescing == [][C2_CallCoalesced]_vars /\ []C2_OneFollowUp

\* three calls were coalesced, the last two with different serial_state
\* values; the transfer completed and the one follow-up is in flight
C2_Witness ==
    /\ hist.phase = "completed"
    /\ hist.n = 3
    /\ hist.stale
    /\ hist.fu = 1
    /\ outstanding = 1
    /\ Payload(req) = hist.last
    /\ \A c \in Ctx : stack[c] = <<>>

\* the channel is at rest and the host has been sent the current state
AtRest ==
    /\ \A c \in Ctx : stack[c] = <<>>
    /\ outstanding = 0
    /\ notify_req = "REQ"
    /\ ~pending
    /\ budget < MaxChanges => req.length > 0 /\ Payload(req) = serial_state

\* C3: when the state changes stop, no submission fails and every transfer
\* completes with a status other than -ESHUTDOWN, a notification carrying
\* the final serial_state is submitted and the channel comes to rest with
\* the request in the slot and the pending flag clear.
C3_EventualDelivery == <>[]AtRest

\* all events are over and the last notification carried the final state
C3_Witness ==
    /\ budget = 0
    /\ AtRest
    /\ serial_state # 0

\* C4: a completion with status -ESHUTDOWN that finds the pending flag set
\* puts the request back in the slot and returns without calling
\* acm_notify_serial_state: nothing is submitted.
C4_ShutdownNoFollowUp ==
    [][ (outstanding' < outstanding /\ hist'.shut)
        => /\ notify_req' = "REQ"
           /\ stack'["irq"] = <<>>
           /\ outstanding' = 0
           /\ req' = req
           /\ pending' = pending ]_vars

\* the handler has returned after such a completion
C4_Witness ==
    /\ hist.shut
    /\ pending
    /\ notify_req = "REQ"
    /\ outstanding = 0
    /\ \A c \in Ctx : stack[c] = <<>>

\* C5: when usb_ep_queue fails, acm_cdc_notify puts the request back in the
\* slot before the lock is released, the negative status is what
\* acm_notify_serial_state returns, and the call ends there: nothing was
\* queued and nothing is retried.
C5_SubmitFailure ==
    [][ \A c \in Ctx :
          (Running(c, "relock") /\ Top(c).st < 0 /\ stack'[c] # stack[c])
          => /\ notify_req = "NULL" /\ notify_req' = "REQ"
             /\ lock' = "free"
             /\ ret' = Top(c).st
             /\ stack'[c] = Pop(stack[c])
             /\ outstanding = 0 /\ outstanding' = 0
             /\ req' = req ]_vars

\* a failed call has returned: the error is reported, the slot is free again
C5_Witness ==
    /\ ret < 0
    /\ notify_req = "REQ"
    /\ outstanding = 0
    /\ \A c \in Ctx : stack[c] = <<>>


\* the request is one of the three of acm_setup, for this interface and,
\* for SET_LINE_CODING, of the right length
IsSetLineCoding(ctrl) ==
    ctrl.bRequestType = REQTYPE_OUT_CLASS_INTERFACE /\ ctrl.bRequest = USB_CDC_REQ_SET_LINE_CODING
IsGetLineCoding(ctrl) ==
    ctrl.bRequestType = REQTYPE_IN_CLASS_INTERFACE /\ ctrl.bRequest = USB_CDC_REQ_GET_LINE_CODING
IsSetControlLineState(ctrl) ==
    /\ ctrl.bRequestType = REQTYPE_OUT_CLASS_INTERFACE
    /\ ctrl.bRequest = USB_CDC_REQ_SET_CONTROL_LINE_STATE
ForThisInterface(ctrl) == Le16Value(ctrl.wIndex) = ctrl_id
Rejected(ctrl) ==
    \/ ~(IsSetLineCoding(ctrl) \/ IsGetLineCoding(ctrl) \/ IsSetControlLineState(ctrl))
    \/ ~ForThisInterface(ctrl)
    \/ (IsSetLineCoding(ctrl) /\ Le16Value(ctrl.wLength) # 7)
QueueResults == {0} \cup Ep0QueueErrors
PortStateKept ==
    UNCHANGED <<port_line_coding, port_handshake_bits, serial_state, notify_modem,
                notify_req, pending, req, outstanding, ctrl_id>>

\* C6: once the data stage of a SET_LINE_CODING has completed with status 0
\* and 7 bytes (rx holds the bytes the host sent in the latest such stage), a
\* GET_LINE_CODING for this interface that asks for 7 bytes or more queues an
\* IN transfer of exactly 7 bytes, and they are the bytes received.
C6_LineCodingRoundTrip ==
  [][
    \A ctrl \in CtrlRequests :
        ( /\ IsGetLineCoding(ctrl) /\ ForThisInterface(ctrl)
          /\ Le16Value(ctrl.wLength) >= 7
          /\ rx # <<>>
          /\ acm_setup(ctrl, 0) )
        => ( /\ ep0'.queued /\ ep0'.dir = "in"
             /\ ep0req'.length = 7
             /\ SubSeq(ep0req'.buf, 1, 7) = rx
             /\ setup_ret' = 0 )
  ]_vars
C6_Witness ==
    /\ rx \in HostLineCodings
    /\ ep0.queued /\ ep0.dir = "in" /\ ep0req.length = 7
    /\ ep0req.buf = rx

\* C7: when the data stage of a SET_LINE_CODING completes with status 0 and
\* a length other than 7, line_coding keeps its value and ep0 is halted; when
\* it completes with a status other than 0, line_coding keeps its value.
C7_ShortSetLineCoding ==
  [][
    \A status \in Ep0Statuses, actual \in ActualLengths, data \in HostLineCodings :
        ( /\ ep0req.complete = "acm_complete_set_line_coding"
          /\ Ep0Complete(status, actual, data) )
        => ( /\ (status = 0 /\ actual # 7)
                  => (port_line_coding' = port_line_coding /\ ep0'.halted)
             /\ status # 0 => port_line_coding' = port_line_coding )
  ]_vars
C7_Witness ==
    /\ ep0.halted /\ ~ep0.queued
    /\ ep0req.complete = "acm_complete_set_line_coding"
    /\ port_line_coding \in HostLineCodings
    /\ SubSeq(ep0req.buf, 1, 5) # SubSeq(port_line_coding, 1, 5)

\* C8: a request that is none of the three, or is for another interface, or
\* is a SET_LINE_CODING of a length other than 7, makes acm_setup return a
\* negative value; nothing is queued on ep0, and line_coding, the handshake
\* bits, serial_state, the completion handler of the ep0 request and the
\* notification channel are as before; notify_modem is not called.
C8_UnsupportedRejected ==
  [][
    \A ctrl \in CtrlRequests, q \in QueueResults :
        (Rejected(ctrl) /\ acm_setup(ctrl, q))
        => ( /\ setup_ret' < 0
             /\ ~ep0'.queued
             /\ ep0req' = ep0req
             /\ ep0'.driver_data = ep0.driver_data
             /\ modem_calls' = <<>>
             /\ PortStateKept )
  ]_vars
C8_Witness ==
    /\ setup_ret = -EOPNOTSUPP
    /\ ~ep0.queued /\ ~ep0.dispatch
    /\ port_line_coding \in HostLineCodings
    /\ port_handshake_bits = 3

\* C9: SET_CONTROL_LINE_STATE for this interface stores the 16 bits of wValue
\* as the handshake bits, calls notify_modem once with that value when a
\* callback is registered and not at all when none is, and submits the ep0
\* request with length 0; serial_state, line_coding and the notification
\* channel are as before.
C9_SetControlLineState ==
  [][
    \A ctrl \in CtrlRequests, q \in QueueResults :
        (IsSetControlLineState(ctrl) /\ ForThisInterface(ctrl) /\ acm_setup(ctrl, q))
        => ( /\ port_handshake_bits' = Le16Value(ctrl.wValue)
             /\ modem_calls' = IF notify_modem THEN <<Le16Value(ctrl.wValue)>> ELSE <<>>
             /\ ep0req'.length = 0
             /\ setup_ret' = q
             /\ ep0'.queued = (q = 0)
             /\ UNCHANGED <<port_line_coding, serial_state, notify_req, pending, req,
                            outstanding>> )
  ]_vars
C9_Witness ==
    /\ port_handshake_bits = 258
    /\ notify_modem /\ modem_calls = <<258>>
    /\ ep0.queued /\ ep0req.length = 0 /\ setup_ret = 0

\* C10: GET_LINE_CODING for this interface submits an IN transfer of
\* min(wLength, 7) bytes, which are the leading bytes of line_coding, and
\* changes nothing of the port.
C10_GetLineCoding ==
  [][
    \A ctrl \in CtrlRequests, q \in QueueResults :
        (IsGetLineCoding(ctrl) /\ ForThisInterface(ctrl) /\ acm_setup(ctrl, q))
        => LET n == IF Le16Value(ctrl.wLength) < 7 THEN Le16Value(ctrl.wLength) ELSE 7
           IN  /\ ep0req'.length = n
               /\ SubSeq(ep0req'.buf, 1, n) = SubSeq(port_line_coding, 1, n)
               /\ setup_ret' = q
               /\ ep0'.queued = (q = 0)
               /\ q = 0 => ep0'.dir = "in"
               /\ modem_calls' = <<>>
               /\ PortStateKept
  ]_vars
C10_Witness ==
    /\ ep0.queued /\ ep0.dir = "in" /\ ep0req.length = 5
    /\ port_line_coding \in HostLineCodings
    /\ SubSeq(ep0req.buf, 1, 5) = SubSeq(port_line_coding, 1, 5)
    /\ ep0req.buf # port_line_coding

\* acm_connect has stored its value and acm_disconnect has not yet
ConnectWritten ==
    \/ budget = 1 /\ ~Running("t1", "write")
    \/ budget = 0 /\ Running("t1", "write")
\* acm_disconnect has stored its value
DisconnectWritten == budget = 0 /\ ~Running("t1", "write")
BothSet(x) == BitAnd(x, ACM_CTRL_DSR + ACM_CTRL_DCD) = ACM_CTRL_DSR + ACM_CTRL_DCD
BothClear(x) == BitAnd(x, ACM_CTRL_DSR + ACM_CTRL_DCD) = 0

\* in acm_connect and until acm_disconnect stores, DCD and DSR are set and,
\* once the call of acm_notify_serial_state has left the critical section, so
\* are they in the notification; after acm_disconnect has stored, they are clear
C11_Bits ==
    /\ ConnectWritten => BothSet(serial_state)
    /\ (ConnectWritten /\ ~Running("t1", "notify"))
         => (req.length > 0 /\ BothSet(Payload(req)) /\ ~pending)
    /\ DisconnectWritten => BothClear(serial_state)

\* the call made by acm_disconnect submits a notification with both bits
\* clear or, when the first one is in flight, sets the pending flag; every
\* notification filled in after acm_disconnect has both bits clear
C11_DisconnectStep ==
    /\ (DisconnectWritten /\ Running("t1", "notify") /\ stack'["t1"] # stack["t1"])
         => IF outstanding = 0 /\ notify_req = "REQ"
            THEN Running("t1", "queue")' /\ BothClear(Payload(req'))
            ELSE outstanding = 1 /\ pending' /\ stack'["t1"] = <<>> /\ req' = req
    /\ (DisconnectWritten /\ req' # req) => BothClear(Payload(req'))

\* acm_disconnect has returned, nothing is in flight or pending and the last
\* notification has both bits clear
C11_Rest ==
    /\ AtRest
    /\ budget = 0
    /\ BothClear(serial_state) /\ BothClear(Payload(req))

C12_ActivationStep ==
    /\ \A intf \in AltInterfaces, alt \in AltSettings, cfg_ok \in BOOLEAN :
         acm_set_alt(intf, alt, cfg_ok)
         => /\ (intf = ctrl_id /\ alt_ret' = 0)
                 => (notify_ep'.enabled = 1 /\ notify_ep'.driver_data = "acm")
            /\ req_mem' = req_mem /\ req' = req
            /\ notify_req' = notify_req \/ (notify_req' = "REQ" /\ outstanding' = 0)
    /\ acm_disable
         => /\ notify_ep'.enabled = 0
            /\ req_mem' = req_mem /\ req' = req
            /\ notify_req' = notify_req \/ (notify_req' = "REQ" /\ outstanding' = 0)

\* C12: in every sequence of acm_set_alt and acm_disable calls usb_ep_enable
\* is never applied to the notification endpoint while an earlier enable is in
\* effect: a repeated activation disables it first and leaves it enabled
\* once, and the port keeps its one notification request.
C12_IdempotentActivation == [](notify_ep.enabled <= 1) /\ [][C12_ActivationStep]_vars

\* the control interface was activated while it was active: the endpoint
\* was disabled and is enabled once
C12_Witness ==
    /\ notify_ep.reset
    /\ notify_ep.enabled = 1
    /\ notify_ep.driver_data = "acm"
    /\ alt_ret = 0
    /\ req_mem = "live"

\* C13: when the transport of the port is neither TTY nor SMD, acm_set_alt
\* on the data interface returns a negative value, and the transport is not
\* connected.
C13_UnsupportedTransportFails ==
  [][
    \A alt \in AltSettings, cfg_ok \in BOOLEAN :
        (transport = "UNDEF" /\ acm_set_alt(data_id, alt, cfg_ok))
        => (alt_ret' < 0 /\ ~connected')
  ]_vars

\* C14: acm_set_alt with an alternate setting other than 0, or with an
\* interface that is neither the control nor the data interface, returns a
\* negative value and leaves the endpoints and the transport as they were.
C14_OnlyAltZero ==
  [][
    \A intf \in AltInterfaces, alt \in AltSettings, cfg_ok \in BOOLEAN :
        ((alt # 0 \/ intf \notin {ctrl_id, data_id}) /\ acm_set_alt(intf, alt, cfg_ok))
        => (alt_ret' < 0 /\ UNCHANGED <<notify_ep, port_ep, connected>>)
  ]_vars

\* the state acm_disable leaves: the transport is not connected, the
\* notification endpoint is disabled and its driver_data is NULL
Deactivated ==
    /\ ~connected
    /\ notify_ep.enabled = 0
    /\ notify_ep.driver_data = "NULL"

\* acm_disable applied to the state acm_disable leaves changes nothing
DisableTwiceIsOnce ==
    LET once  == acm_disable_state(notify_ep, port_ep, connected)
        twice == acm_disable_state(once.notify_ep, once.port_ep, once.connected)
    IN  twice = once

\* C15: from every activation state acm_disable leaves the transport
\* disconnected, the notification endpoint disabled and its driver_data
\* NULL, and no transfer of the notification request in flight; applying it
\* to the state it leaves gives that state again.
C15_DisableIdempotent ==
    /\ [][acm_disable => (Deactivated' /\ outstanding' = 0)]_vars
    /\ [][(acm_disable /\ Deactivated /\ outstanding = 0
             /\ acm_disable_state(notify_ep, port_ep, connected)
                  = [notify_ep |-> notify_ep, port_ep |-> port_ep, connected |-> connected])
          => UNCHANGED vars]_vars
    /\ []DisableTwiceIsOnce

\* acm_disable has deactivated a port whose interfaces had both been
\* activated (descriptors chosen, which this UDC keeps)
C15_Witness ==
    /\ Deactivated
    /\ notify_ep.desc /\ port_ep.in_desc /\ port_ep.driver_data = "NULL"
    /\ transport = "TTY"

\* the request r is a SerialState notification of the interface id with
\* the two bytes of state s, low byte first, as payload
SerialStateNotification(r, id, s) ==
    /\ r.bmRequestType = 161
    /\ r.bNotificationType = 32
    /\ r.wValue = <<0, 0>>
    /\ r.wIndex = <<id % 256, id \div 256>>
    /\ r.wLength = <<2, 0>>
    /\ Len(r.data) >= 2
    /\ SubSeq(r.data, 1, 2) = <<s % 256, s \div 256>>

\* a context has the request and is about to call usb_ep_queue
C16_Submitting(c) == Running(c, "queue")

\* C16: the request is written only when acm_notify_serial_state checks it
\* out of the slot; it then is a SerialState notification (request type
\* 0xA1, code 0x20, wValue 0, wIndex = ctrl_id, wLength 2) whose payload is
\* the serial_state of that moment, and it is handed to usb_ep_queue as it is.
C16_WireContent ==
  [][
    /\ \A c \in Ctx :
         (~C16_Submitting(c) /\ C16_Submitting(c)')
         => SerialStateNotification(req', ctrl_id, serial_state)
    /\ req' # req => \E c \in Ctx : ~C16_Submitting(c) /\ C16_Submitting(c)'
    /\ outstanding' > outstanding
         => \E s \in 0..(U16 - 1) : SerialStateNotification(req, ctrl_id, s)
  ]_vars

\* a notification of interface 2 with serial_state 257 is in flight
C16_Witness ==
    /\ ctrl_id = 2
    /\ outstanding = 1
    /\ SerialStateNotification(req, 2, 256 + ACM_CTRL_DCD)

\* the error acm_bind reports when step fail fails: what the framework call
\* returned, or -ENODEV for an endpoint or a request that is not to be had
FirstError(fail, err) == IF fail \in {1, 2, 3, 8} THEN err ELSE -ENODEV

\* C17: when acm_bind fails at any step, it returns the error of that
\* step, the notification request it allocated is freed, the claim on
\* every endpoint it took is cleared, and the function is not bound
C17_BindFailureCleanup ==
    [][\A fail \in BindFailures \ {0}, err \in BindErrors, id \in BindIds :
         acm_bind(fail, err, id) =>
            /\ bind_ret' = FirstError(fail, err)
            /\ life'.st = "alloc"
            /\ fail > 7 => req_mem' = "freed"
            /\ fail > 6 => notify_ep'.driver_data = "NULL"
            /\ fail > 5 => acm_eps'.out_data = "NULL"
            /\ fail > 4 => port_ep'.driver_data = "NULL"]_vars

\* acm_bind has failed after it had taken the three endpoints and the request
C17_Witness ==
    /\ life.st = "alloc" /\ bind_ret < 0
    /\ acm_eps.in /\ acm_eps.out /\ acm_eps.notify
    /\ notify_ep.driver_data = "NULL" /\ acm_eps.out_data = "NULL"
    /\ port_ep.driver_data = "NULL"
    /\ req_mem = "freed"


\* C18: after acm_unbind the notification request of the preceding
\* acm_bind is freed, whether the slot held it or it was checked out
C18_UnbindFreesRequest ==
    [][acm_unbind => req_mem' = "freed"]_vars


\* the f_acm structures allocated and not yet freed
Allocated == life.others + (IF life.st = "none" THEN 0 ELSE 1)

\* C19: acm_free_func undoes exactly what acm_alloc_func did to
\* acm_next_free_port, with ports set up in advance (nr_acm_ports > 0) and
\* without (nr_acm_ports = 0): the counter is the number of functions
\* allocated in the first mode, stays zero in the second, and never wraps
C19_FreeSymmetric ==
    acm_next_free_port = u32(IF nr_acm_ports > 0 THEN Allocated ELSE 0)


\* C20: whenever the port lock is free, pending set means that the
\* notification request is checked out of its slot (notify_req is NULL)
C20_PendingImpliesCheckedOut ==
    (lock = "free" /\ pending) => notify_req = "NULL"


\* C27: over any sequence of acm_bind (succeeding or failing at any step)
\* and acm_unbind on one port, gs_free_req is never applied to a request
\* that was freed already
C27_FreedAtMostOnce ==
    req_mem # "double"


\* port_num of the functions that are allocated
LivePortNums ==
    (IF life.st = "none" THEN <<>> ELSE <<port_num.this>>) \o port_num.others

\* C25: with ports set up in advance (nr_acm_ports > 0), functions allocated
\* at the same time have different port_num, and every port_num is an
\* index into gacm_ports (below GSERIAL_NO_PORTS)
C25_PortIndicesDistinct ==
    nr_acm_ports > 0 =>
        /\ \A j, k \in 1..Len(LivePortNums) :
             j # k => LivePortNums[j] # LivePortNums[k]
        /\ \A j \in 1..Len(LivePortNums) : LivePortNums[j] < GSERIAL_NO_PORTS


\* C26: in both builds the transfer length acm_cdc_notify sets, and the
\* bytes it writes into the request buffer (header and payload), stay
\* within the buffer allocated at bind (header plus 2 bytes)
C26_NotificationWithinBuffer ==
    /\ req.length <= NotifyBufSize
    /\ SIZEOF_NOTIFICATION + Len(req.data) <= NotifyBufSize


\* C24: when acm_set_alt on the data interface has to bind the data
\* endpoints and config_ep_by_speed fails for .in or for .out, both
\* descriptor pointers are NULL afterwards, the call returns an error and
\* does not connect the transport; the next activation that can bind
\* binds both endpoints again
C24_DataBindFailure ==
    [][\A alt \in AltSettings :
         /\ (NeedsDataBind /\ acm_set_alt(data_id, alt, FALSE)) =>
               /\ ~port_ep'.in_desc /\ ~port_ep'.out_desc
               /\ alt_ret' < 0
               /\ connected' => connected
         /\ (port_ep.bound = "failed" /\ acm_set_alt(data_id, alt, TRUE)) =>
               port_ep'.in_desc /\ port_ep'.out_desc]_vars

\* a data activation has bound both endpoints after one whose binding failed
C24_Witness ==
    /\ port_ep.bound = "again"
    /\ port_ep.in_desc /\ port_ep.out_desc
    /\ alt_ret = 0


\* C22: every event reads, changes and stores serial_state under the port
\* lock, so the value an event stores is its change applied to the value
\* serial_state has at the store: no update of a concurrent event is lost
C22_NoLostUpdate ==
    [][\A t \in Threads :
         WriteState(t) => serial_state' = NewState(Top(t).ev, serial_state)]_vars

\* C23: after any sequence of events DCD and DSR of serial_state are both
\* set exactly if the latest of connect and disconnect was a connect, and
\* no notification submitted after a disconnect, before the next connect,
\* carries DCD or DSR
C23_LinkBitsMirrorConnection ==
    /\ [](hist.link = "connect" <=> BothSet(serial_state))
    /\ [][\A c \in Ctx :
            (hist.link = "disconnect" /\ (EpQueueOk(c) \/ EpQueueSync(c) \/ EpQueueFail(c)))
            => BothClear(Payload(req))]_vars


\* C21: the submitter does not hold the port lock while usb_ep_queue is
\* called, so the completion handler can run inside usb_ep_queue, take the
\* lock and call acm_notify_serial_state again; and when no call is under
\* way the lock is free (every call released it as often as it took it)
C21_LockNotHeldAcrossQueue ==
    /\ \A c \in Ctx : Running(c, "queue") =>
          /\ lock = "free"
          /\ Len(stack[c]) < MaxDepth => ENABLED EpQueueSync(c)
    /\ (\A c \in Ctx : stack[c] = <<>>) => lock = "free"

\* the completion handler ran inside a thread's usb_ep_queue, called
\* acm_notify_serial_state, and that call is at its own usb_ep_queue
C21_Witness ==
    \E t \in Threads :
        /\ Len(stack[t]) = 2
        /\ stack[t][1].pc = "relock" /\ stack[t][1].by = "event"
        /\ stack[t][2].pc = "queue" /\ stack[t][2].by = "complete"
        /\ lock = "free"

====
